---- MODULE Spec2Model ----
(***************************************************************************)
(* Capsule registry, template engine and request dispatch of               *)
(* src/src/application.rs.                                                 *)
(*                                                                         *)
(* Strings that the code builds or compares character by character (uris,  *)
(* request paths, lookup keys) are sequences of one-character strings, so  *)
(* that "/" + join(p, "/") is computed and not assumed.  Strings the code  *)
(* only carries around (names, template names, bodies) are TLA+ strings.   *)
(* JSON objects are functions from key strings to values.                  *)
(***************************************************************************)
EXTENDS Integers, Sequences, FiniteSets, TLC

\* Bounds of the model.
MaxAdds == 2          \* add calls made while the registry is built
MaxSegs == 2          \* segments of a captured request path

VARIABLES
    registry,     \* CapsuleRegistry.map: uri -> Capsule
    adds,         \* the capsules passed to add, in call order
    lastCall,     \* the most recent registry call of the caller and what it returned
    phase,        \* where RocketTeraServer::serve stands
    rootOk,       \* whether "{root}/**/*.html.tera" is a valid glob pattern
    disk,         \* template file name -> its state in the template directory
    tera,         \* TeraEngine.tera: the names of the compiled templates
    rocketTera,   \* the template set of Rocket's Template fairing
    pc,           \* per thread calling load_all directly: its position
    local,        \* per such thread: the local `tera` built by load_all
    result,       \* per such thread: what its last load_all returned
    writer,       \* the thread holding the write lock of TeraEngine.tera, or NoThread
    resp,         \* the Template value returned by the last request handler
    sent,         \* the response Rocket built from it
    serve,        \* the steps of RocketTeraServer::serve taken so far and its outcome
    handled,      \* whether a route or catcher has run since the start
    prev,         \* history: the request answered before, where a run keeps it
    cap,          \* a capsule value a caller holds (Option)
    lastCtx       \* what the caller's last context_for call was given and returned

vars == <<registry, adds, lastCall, phase, rootOk, disk, tera, rocketTera,
          pc, local, result, writer, resp, sent, serve, handled, prev,
          cap, lastCtx>>

regVars == <<registry, adds, lastCall>>
engVars == <<tera, pc, local, result, writer>>
ctxVars == <<cap, lastCtx>>
outVars == <<sent, serve, handled, prev>>

----------------------------------------------------------------------------
\* Method and its derived Debug formatting.

Methods == {"Method::GET", "Method::POST", "Method::PUT", "Method::DELETE"}

DebugFmt(m) ==
    CASE m = "Method::GET"    -> "GET"
      [] m = "Method::POST"   -> "POST"
      [] m = "Method::PUT"    -> "PUT"
      [] m = "Method::DELETE" -> "DELETE"

----------------------------------------------------------------------------
\* JSON values.

EmptyObject == [k \in {} |-> k]                  \* json!({}) and context! {}
DataX1 == [x |-> 1]                              \* a configured payload {"x":1}
BodyObject(data) == [body |-> data]              \* json!({ "body": data })

----------------------------------------------------------------------------
\* Capsule.

\* Mutant of NewCapsule: a uri without a leading slash is given one.
NewCapsuleSlashed(name, description, uri, template, method) ==
    [ name        |-> name,
      description |-> description,
      uri         |-> IF uri # <<>> /\ uri[1] = "/" THEN uri ELSE <<"/">> \o uri,
      template    |-> template,
      method      |-> method,
      data        |-> EmptyObject ]

NewCapsule(name, description, uri, template, method) ==
    [ name        |-> name,
      description |-> description,
      uri         |-> uri,
      template    |-> template,
      method      |-> method,
      data        |-> EmptyObject ]

\* `data` is a public field: a caller may set it after construction.
WithData(capsule, data) == [capsule EXCEPT !.data = data]

\* The arguments callers pass to Capsule::new: name, description, uri, template, method.
ConstructArgs ==
    { <<"home", "landing page", <<"/">>, "index", "Method::GET">>,
      <<"blog", "a post", <<"/", "a">>, "post", "Method::POST">>,
      <<"echo", "echo back", <<"/", "a">>, "index", "Method::PUT">>,
      <<"deep", "nested", <<"/", "a", "/", "b">>, "index", "Method::DELETE">>,
      <<"bare", "no leading slash", <<"a">>, "index", "Method::GET">>,
      <<"trail", "trailing slash", <<"/", "a", "/">>, "post", "Method::GET">> }

Construct(args) == NewCapsule(args[1], args[2], args[3], args[4], args[5])

\* The payloads callers configure: "echo" and "deep" carry {"x":1}, the others {}.
ConfiguredData(capsule) ==
    IF capsule.name \in {"echo", "deep"} THEN DataX1 ELSE EmptyObject

\* The capsules callers register.
CallerCapsules ==
    {WithData(Construct(args), ConfiguredData(Construct(args))) : args \in ConstructArgs}

----------------------------------------------------------------------------
\* Option<T>.

None == [some |-> FALSE]
Some(v) == [some |-> TRUE, value |-> v]

----------------------------------------------------------------------------
\* CapsuleRegistry.

\* HashMap::insert
MapInsert(map, k, v) ==
    [x \in (DOMAIN map) \cup {k} |-> IF x = k THEN v ELSE map[x]]

\* HashMap::get
MapGet(map, k) == IF k \in DOMAIN map THEN Some(map[k]) ELSE None

\* Mutant of RegistryAdd: an entry already present is kept (entry().or_insert).
RegistryAddKeepFirst(map, capsule) ==
    IF capsule.uri \in DOMAIN map THEN map ELSE MapInsert(map, capsule.uri, capsule)

RegistryAdd(map, capsule) == MapInsert(map, capsule.uri, capsule)

\* Mutant of RegistryGet: the key is trimmed of a trailing slash before the lookup.
RegistryGetTrimmed(map, uri) ==
    IF Len(uri) > 1 /\ uri[Len(uri)] = "/"
    THEN MapGet(map, SubSeq(uri, 1, Len(uri) - 1))
    ELSE MapGet(map, uri)

RegistryGet(map, uri) == MapGet(map, uri)

\* The pairs map.iter() yields; the order of a HashMap's iteration is unspecified.
RegistryAll(map) == {<<k, map[k]>> : k \in DOMAIN map}

Range(seq) == {seq[i] : i \in 1..Len(seq)}

\* Every order in which an iterator can yield the pairs of S, each pair once.
Orderings(S) ==
    {seq \in [1..Cardinality(S) -> S] : Range(seq) = S}

\* The strings a caller looks up.
ProbeUris ==
    { <<"/">>, <<"/", "a">>, <<"a">>, <<"/", "a", "/">>, <<"/", "a", "/", "b">>,
      <<"/", "b">>, <<>> }

Add(capsule) ==
    /\ phase = "build"
    /\ Len(adds) < MaxAdds
    /\ registry' = RegistryAdd(registry, capsule)
    /\ adds' = Append(adds, capsule)
    /\ lastCall' = [op |-> "add", arg |-> capsule, result |-> None]
    /\ UNCHANGED <<phase, rootOk, disk, rocketTera, resp>>
    /\ UNCHANGED outVars
    /\ UNCHANGED engVars
    /\ UNCHANGED ctxVars

Get(uri) ==
    /\ phase = "build"
    /\ lastCall' = [op |-> "get", arg |-> uri, result |-> RegistryGet(registry, uri)]
    /\ UNCHANGED <<registry, adds, phase, rootOk, disk, rocketTera, resp>>
    /\ UNCHANGED outVars
    /\ UNCHANGED engVars
    /\ UNCHANGED ctxVars

\* Mutant of All: the iterator drains the map (drain() instead of iter()).
AllDrain ==
    /\ phase = "build"
    /\ \E order \in Orderings(RegistryAll(registry)) :
          lastCall' = [op |-> "all", arg |-> <<>>, result |-> order]
    /\ registry' = <<>>
    /\ UNCHANGED <<adds, phase, rootOk, disk, rocketTera, resp>>
    /\ UNCHANGED outVars
    /\ UNCHANGED engVars
    /\ UNCHANGED ctxVars

All ==
    /\ phase = "build"
    /\ \E order \in Orderings(RegistryAll(registry)) :
          lastCall' = [op |-> "all", arg |-> <<>>, result |-> order]
    /\ UNCHANGED <<registry, adds, phase, rootOk, disk, rocketTera, resp>>
    /\ UNCHANGED outVars
    /\ UNCHANGED engVars
    /\ UNCHANGED ctxVars

----------------------------------------------------------------------------
\* Template files on disk, as the glob "{root}/**/*.html.tera" walks them.
\*   "absent"  no such file
\*   "ok"      a file that compiles
\*   "bad"     a file that does not compile (syntax error)
\*   "walkerr" the walk fails on this entry (e.g. its directory is unreadable)

TemplateFiles == {"404", "index"}
FileStates == {"absent", "ok", "bad", "walkerr"}

\* globwalk::glob(..)?.filter_map(Result::ok): entries the walk fails on are dropped.
Globbed(d) == {f \in TemplateFiles : d[f] \in {"ok", "bad"}}

\* The local `tera` of load_all after add_template_files, and whether the two `?`
\* let the call go on.  When a file does not compile the local set holds what was
\* added before the failure and is dropped with the early return.
BuildTera(globOk, d) ==
    IF ~globOk
    THEN [ok |-> FALSE, tera |-> {}]
    ELSE IF \E f \in Globbed(d) : d[f] = "bad"
         THEN [ok |-> FALSE, tera |-> {f \in Globbed(d) : d[f] = "ok"}]
         ELSE [ok |-> TRUE, tera |-> Globbed(d)]

\* The environment edits the template directory before Rocket has ignited.  A
\* program that loads only through serve reads the directory no more after
\* that; DiskChangeLive is the edit made while the server runs.
DiskChange(f, s) ==
    /\ phase \in {"build", "loaded"}
    /\ disk[f] # s
    /\ disk' = [disk EXCEPT ![f] = s]
    /\ UNCHANGED <<phase, rootOk, rocketTera, resp>>
    /\ UNCHANGED outVars
    /\ UNCHANGED regVars
    /\ UNCHANGED engVars
    /\ UNCHANGED ctxVars

----------------------------------------------------------------------------
\* TeraEngine::load_all called directly by threads sharing the engine.

Threads == {"t1", "t2"}
NoThread == "none"

\* let glob = format!("{}/**/*.html.tera", self.root);
LoadCall(t) ==
    /\ pc[t] = "idle"
    /\ pc' = [pc EXCEPT ![t] = "called"]
    /\ result' = [result EXCEPT ![t] = "pending"]
    /\ UNCHANGED <<tera, local, writer>>
    /\ UNCHANGED <<phase, rootOk, disk, rocketTera, resp>>
    /\ UNCHANGED outVars
    /\ UNCHANGED regVars
    /\ UNCHANGED ctxVars

\* Mutant of LoadBuild: the files are added to the shared set in place, so a
\* failing load leaves what it had added.
LoadBuildInPlace(t) ==
    /\ pc[t] = "called"
    /\ LET b == BuildTera(rootOk, disk) IN
         IF b.ok
         THEN /\ local' = [local EXCEPT ![t] = b.tera]
              /\ pc' = [pc EXCEPT ![t] = "built"]
              /\ UNCHANGED <<result, tera>>
         ELSE /\ result' = [result EXCEPT ![t] = "Err"]
              /\ pc' = [pc EXCEPT ![t] = "idle"]
              /\ tera' = b.tera
              /\ UNCHANGED local
    /\ UNCHANGED writer
    /\ UNCHANGED <<phase, rootOk, disk, rocketTera, resp>>
    /\ UNCHANGED outVars
    /\ UNCHANGED regVars
    /\ UNCHANGED ctxVars

\* let mut tera = Tera::default(); tera.add_template_files(globwalk::glob(&glob)? ...)?;
LoadBuild(t) ==
    /\ pc[t] = "called"
    /\ LET b == BuildTera(rootOk, disk) IN
         IF b.ok
         THEN /\ local' = [local EXCEPT ![t] = b.tera]
              /\ pc' = [pc EXCEPT ![t] = "built"]
              /\ UNCHANGED result
         ELSE /\ result' = [result EXCEPT ![t] = "Err"]
              /\ pc' = [pc EXCEPT ![t] = "idle"]
              /\ UNCHANGED local
    /\ UNCHANGED <<tera, writer>>
    /\ UNCHANGED <<phase, rootOk, disk, rocketTera, resp>>
    /\ UNCHANGED outVars
    /\ UNCHANGED regVars
    /\ UNCHANGED ctxVars

\* Mutant of LoadLock: access is granted while another thread holds the lock.
LoadLockShared(t) ==
    /\ pc[t] = "built"
    /\ writer' = t
    /\ pc' = [pc EXCEPT ![t] = "locked"]
    /\ UNCHANGED <<tera, local, result>>
    /\ UNCHANGED <<phase, rootOk, disk, rocketTera, resp>>
    /\ UNCHANGED outVars
    /\ UNCHANGED regVars
    /\ UNCHANGED ctxVars

\* self.tera.write(): exclusive access, granted when nobody holds the lock.
LoadLock(t) ==
    /\ pc[t] = "built"
    /\ writer = NoThread
    /\ writer' = t
    /\ pc' = [pc EXCEPT ![t] = "locked"]
    /\ UNCHANGED <<tera, local, result>>
    /\ UNCHANGED <<phase, rootOk, disk, rocketTera, resp>>
    /\ UNCHANGED outVars
    /\ UNCHANGED regVars
    /\ UNCHANGED ctxVars

\* *guard = tera;
LoadStore(t) ==
    /\ pc[t] = "locked"
    /\ tera' = local[t]
    /\ pc' = [pc EXCEPT ![t] = "stored"]
    /\ UNCHANGED <<local, result, writer>>
    /\ UNCHANGED <<phase, rootOk, disk, rocketTera, resp>>
    /\ UNCHANGED outVars
    /\ UNCHANGED regVars
    /\ UNCHANGED ctxVars

\* Mutant of LoadUnlock: the set is cleared again as the guard is dropped.
LoadUnlockReset(t) ==
    /\ pc[t] = "stored"
    /\ writer' = NoThread
    /\ local' = [local EXCEPT ![t] = {}]
    /\ result' = [result EXCEPT ![t] = "Ok"]
    /\ pc' = [pc EXCEPT ![t] = "idle"]
    /\ tera' = {}
    /\ UNCHANGED <<phase, rootOk, disk, rocketTera, resp>>
    /\ UNCHANGED outVars
    /\ UNCHANGED regVars
    /\ UNCHANGED ctxVars

\* the guard is dropped at the end of the statement; Ok(())
LoadUnlock(t) ==
    /\ pc[t] = "stored"
    /\ writer' = NoThread
    /\ local' = [local EXCEPT ![t] = {}]
    /\ result' = [result EXCEPT ![t] = "Ok"]
    /\ pc' = [pc EXCEPT ![t] = "idle"]
    /\ UNCHANGED tera
    /\ UNCHANGED <<phase, rootOk, disk, rocketTera, resp>>
    /\ UNCHANGED outVars
    /\ UNCHANGED regVars
    /\ UNCHANGED ctxVars

----------------------------------------------------------------------------
\* Request paths.

Segments == {<<"a">>, <<"b">>, <<".", "a">>}

\* The segment sequences of the requests the server receives.
RequestPaths == UNION {[1..n -> Segments] : n \in 0..MaxSegs}

\* PathBuf::push of one segment (a relative component without separators).
PathPush(buf, seg) ==
    IF buf = <<>> THEN seg
    ELSE IF buf[Len(buf)] = "/" THEN buf \o seg
    ELSE buf \o <<"/">> \o seg

\* The PathBuf a `path: PathBuf` parameter receives for the segments <path..>.
RECURSIVE PathBufOf(_)
PathBufOf(segs) ==
    IF segs = <<>> THEN <<>>
    ELSE PathPush(PathBufOf(SubSeq(segs, 1, Len(segs) - 1)), segs[Len(segs)])

\* The PathBuf guard forwards the request when a segment starts with '.'.
Capturable(segs) == \A i \in 1..Len(segs) : segs[i][1] # "."

\* Mutant of Normalize: the leading slash is not prefixed (path.display() alone).
NormalizeBare(pathBuf) == pathBuf

\* format!("/{}", path.display())
Normalize(pathBuf) == <<"/">> \o pathBuf

----------------------------------------------------------------------------
\* Rendering.

\* Template::render(name, context): the value a handler returns.
TemplateRender(name, context) == [name |-> name, context |-> context]

\* Mutant of ContextFor: the whole capsule is serialised (Capsule derives Serialize).
ContextForSerialized(capsule) ==
    [ template    |-> capsule.template,
      name        |-> capsule.name,
      description |-> capsule.description,
      uri         |-> capsule.uri,
      method      |-> DebugFmt(capsule.method),
      data        |-> capsule.data ]

\* TemplateEngine::context_for (the default body; TeraEngine does not override it)
ContextFor(capsule) ==
    [ name        |-> capsule.name,
      description |-> capsule.description,
      uri         |-> capsule.uri,
      method      |-> DebugFmt(capsule.method),
      data        |-> capsule.data ]

\* Mutant of RenderCapsule: the capsule's name is taken for the template name.
RenderCapsuleByName(capsule) == TemplateRender(capsule.name, ContextFor(capsule))

RenderCapsule(capsule) == TemplateRender(capsule.template, ContextFor(capsule))

\* Mutant of CatchAllBody: a miss renders "404" with an empty context, as not_found does.
CatchAllBodyNoPath(reg, pathBuf) ==
    LET path == Normalize(pathBuf)
        found == RegistryGet(reg, path)
    IN  IF found.some
        THEN [hit |-> TRUE, key |-> path, template |-> RenderCapsule(found.value)]
        ELSE [hit |-> FALSE, key |-> path,
              template |-> TemplateRender("404", EmptyObject)]

\* Mutant of CatchAllBody: a capsule that does not declare GET is not served to a
\* GET request.
CatchAllBodyGetOnly(reg, pathBuf) ==
    LET path == Normalize(pathBuf)
        found == RegistryGet(reg, path)
    IN  IF found.some /\ found.value.method = "Method::GET"
        THEN [hit |-> TRUE, key |-> path, template |-> RenderCapsule(found.value)]
        ELSE [hit |-> FALSE, key |-> path,
              template |-> TemplateRender("404", [path |-> path])]

\* Mutant of CatchAllBody: after a miss the path is looked up once more without
\* the leading slash.
CatchAllBodyLenient(reg, pathBuf) ==
    LET path == Normalize(pathBuf)
        found == RegistryGet(reg, path)
        again == RegistryGet(reg, pathBuf)
    IN  IF found.some
        THEN [hit |-> TRUE, key |-> path, template |-> RenderCapsule(found.value)]
        ELSE IF again.some
        THEN [hit |-> TRUE, key |-> pathBuf, template |-> RenderCapsule(again.value)]
        ELSE [hit |-> FALSE, key |-> path,
              template |-> TemplateRender("404", [path |-> path])]

\* The body of catch_all: what it returns and which branch it took.
CatchAllBody(reg, pathBuf) ==
    LET path == Normalize(pathBuf)
        found == RegistryGet(reg, path)
    IN  IF found.some
        THEN [hit |-> TRUE, key |-> path, template |-> RenderCapsule(found.value)]
        ELSE [hit |-> FALSE, key |-> path,
              template |-> TemplateRender("404", [path |-> path])]

\* Mutant of HandlePostBody: the body is merged into the capsule's data.
HandlePostBodyMerge(reg, pathBuf, data) ==
    LET path_str == Normalize(pathBuf)
        found == RegistryGet(reg, path_str)
    IN  IF found.some
        THEN LET capsule == [found.value EXCEPT
                                !.data = BodyObject(data) @@ found.value.data]
                 ctx == ContextFor(capsule)
             IN  [hit |-> TRUE, key |-> path_str,
                  template |-> TemplateRender(capsule.template, ctx)]
        ELSE [hit |-> FALSE, key |-> path_str,
              template |-> TemplateRender("404", [path |-> path_str])]

\* Mutant of HandlePostBody: the clone's method is set to POST as well.
HandlePostBodyAsPost(reg, pathBuf, data) ==
    LET path_str == Normalize(pathBuf)
        found == RegistryGet(reg, path_str)
    IN  IF found.some
        THEN LET capsule == [found.value EXCEPT !.data = BodyObject(data),
                                                !.method = "Method::POST"]
                 ctx == ContextFor(capsule)
             IN  [hit |-> TRUE, key |-> path_str,
                  template |-> TemplateRender(capsule.template, ctx)]
        ELSE [hit |-> FALSE, key |-> path_str,
              template |-> TemplateRender("404", [path |-> path_str])]

\* The body of handle_post.
HandlePostBody(reg, pathBuf, data) ==
    LET path_str == Normalize(pathBuf)
        found == RegistryGet(reg, path_str)
    IN  IF found.some
        THEN LET capsule == [found.value EXCEPT !.data = BodyObject(data)]
                 ctx == ContextFor(capsule)
             IN  [hit |-> TRUE, key |-> path_str,
                  template |-> TemplateRender(capsule.template, ctx)]
        ELSE [hit |-> FALSE, key |-> path_str,
              template |-> TemplateRender("404", [path |-> path_str])]

Bodies == {"hello", "x=1"}
Statuses == {404, 500}

NoResp ==
    [ handler |-> "none", segs |-> <<>>, body |-> "", hit |-> FALSE, key |-> <<>>,
      status |-> 0, template |-> TemplateRender("", EmptyObject) ]

\* `status` is the error status a catcher was invoked for; routes have none.
Handled(handler, segs, body, out) ==
    [ handler |-> handler, segs |-> segs, body |-> body, hit |-> out.hit,
      key |-> out.key, status |-> 0, template |-> out.template ]

\* The body of not_found.
NotFoundBody == TemplateRender("404", EmptyObject)

\* Mutant of DefaultCatcherBody: the status is handed to the template.
DefaultCatcherBodyByStatus(status) == TemplateRender("404", [status |-> status])

\* The body of default_catcher: its Request argument is not looked at, and the
\* status it is invoked for is not a parameter of the Rust function at all.
DefaultCatcherBody(status) == TemplateRender("404", EmptyObject)

\* Mutant of CatchAll: a hit that follows a POST hit on the same key renders
\* what that POST rendered.
CatchAllCached(segs) ==
    /\ phase = "serving"
    /\ resp = NoResp
    /\ Capturable(segs)
    /\ LET out == CatchAllBody(registry, PathBufOf(segs)) IN
         resp' = IF out.hit /\ prev.handler = "handle_post" /\ prev.key = out.key
                 THEN Handled("catch_all", segs, "",
                              HandlePostBody(registry, PathBufOf(segs), prev.body))
                 ELSE Handled("catch_all", segs, "", out)
    /\ handled' = TRUE
    /\ UNCHANGED <<phase, rootOk, disk, rocketTera, sent, serve, prev>>
    /\ UNCHANGED regVars
    /\ UNCHANGED engVars
    /\ UNCHANGED ctxVars

\* GET /<path..>, rank 1
CatchAll(segs) ==
    /\ phase = "serving"
    /\ resp = NoResp
    /\ Capturable(segs)
    /\ resp' = Handled("catch_all", segs, "", CatchAllBody(registry, PathBufOf(segs)))
    /\ handled' = TRUE
    /\ UNCHANGED <<phase, rootOk, disk, rocketTera, sent, serve, prev>>
    /\ UNCHANGED regVars
    /\ UNCHANGED engVars
    /\ UNCHANGED ctxVars

\* Mutant of HandlePost: on a hit the body is written into the registry's own
\* capsule instead of a clone.
HandlePostInPlace(segs, data) ==
    /\ phase = "serving"
    /\ resp = NoResp
    /\ Capturable(segs)
    /\ LET out == HandlePostBody(registry, PathBufOf(segs), data) IN
         /\ resp' = Handled("handle_post", segs, data, out)
         /\ registry' = IF out.hit
                        THEN [registry EXCEPT ![out.key].data = BodyObject(data)]
                        ELSE registry
    /\ handled' = TRUE
    /\ UNCHANGED <<adds, lastCall>>
    /\ UNCHANGED <<phase, rootOk, disk, rocketTera, sent, serve, prev>>
    /\ UNCHANGED engVars
    /\ UNCHANGED ctxVars

\* POST /<path..> with the body as a String
HandlePost(segs, data) ==
    /\ phase = "serving"
    /\ resp = NoResp
    /\ Capturable(segs)
    /\ resp' = Handled("handle_post", segs, data,
                       HandlePostBody(registry, PathBufOf(segs), data))
    /\ handled' = TRUE
    /\ UNCHANGED <<phase, rootOk, disk, rocketTera, sent, serve, prev>>
    /\ UNCHANGED regVars
    /\ UNCHANGED engVars
    /\ UNCHANGED ctxVars

\* Mutant of NotFound: the fallback route also takes requests catch_all accepts.
NotFoundAnyPath(segs) ==
    /\ phase = "serving"
    /\ resp = NoResp
    /\ resp' = Handled("not_found", segs, "",
                       [hit |-> FALSE, key |-> <<>>, template |-> NotFoundBody])
    /\ handled' = TRUE
    /\ UNCHANGED <<phase, rootOk, disk, rocketTera, sent, serve, prev>>
    /\ UNCHANGED regVars
    /\ UNCHANGED engVars
    /\ UNCHANGED ctxVars

\* GET /<_..>, rank 2: reached when catch_all's PathBuf guard forwards.
NotFound(segs) ==
    /\ phase = "serving"
    /\ resp = NoResp
    /\ ~Capturable(segs)
    /\ resp' = Handled("not_found", segs, "",
                       [hit |-> FALSE, key |-> <<>>, template |-> NotFoundBody])
    /\ handled' = TRUE
    /\ UNCHANGED <<phase, rootOk, disk, rocketTera, sent, serve, prev>>
    /\ UNCHANGED regVars
    /\ UNCHANGED engVars
    /\ UNCHANGED ctxVars

\* #[catch(default)]: any error status of a request no route answered, such as
\* the 404 of a request whose verb no route is mounted for.
DefaultCatcher(status) ==
    /\ phase = "serving"
    /\ resp = NoResp
    /\ status \in Statuses
    /\ resp' = [Handled("default_catcher", <<>>, "",
                        [hit |-> FALSE, key |-> <<>>,
                         template |-> DefaultCatcherBody(status)])
                  EXCEPT !.status = status]
    /\ handled' = TRUE
    /\ UNCHANGED <<phase, rootOk, disk, rocketTera, sent, serve, prev>>
    /\ UNCHANGED regVars
    /\ UNCHANGED engVars
    /\ UNCHANGED ctxVars

----------------------------------------------------------------------------
\* What becomes of the Template value a handler returned.  The handlers return
\* it unrendered; the Template fairing attached in serve renders it by name
\* from Rocket's own set when the response is built.

\* Nothing sent yet.  `page` is a template name, or "builtin" for Rocket's own
\* error page; `via` tells who produced the page.
NoSent == [status |-> 0, page |-> "none", context |-> EmptyObject, via |-> "none"]

BuiltinError == [status |-> 500, page |-> "builtin", context |-> EmptyObject,
                 via |-> "builtin"]

\* The Template responder renders only a name that is in the set.
Renders(set, template) == template.name \in set

\* Mutant of Catch: no catcher is registered, Rocket's own page answers.
CatchBuiltin(set, status) == BuiltinError

\* catchers![default_catcher] is registered for every status: it is invoked for
\* `status`; when its own Template fails to render Rocket falls back to its
\* built-in 500 page.
Catch(set, status) ==
    LET template == DefaultCatcherBody(status)
    IN  IF Renders(set, template)
        THEN [status |-> status, page |-> template.name,
              context |-> template.context, via |-> "catcher"]
        ELSE BuiltinError

\* The response to the request whose handler returned `r`: a route's Template
\* that fails to render is a 500 that goes to the catcher.
Responder(set, r) ==
    IF r.handler = "default_catcher"
    THEN Catch(set, r.status)
    ELSE IF Renders(set, r.template)
         THEN [status |-> 200, page |-> r.template.name,
               context |-> r.template.context, via |-> "route"]
         ELSE Catch(set, 500)

\* Rocket builds the response from the handler's Template value.
Respond ==
    /\ phase = "serving"
    /\ resp # NoResp
    /\ sent = NoSent
    /\ sent' = Responder(rocketTera, resp)
    /\ UNCHANGED <<phase, rootOk, disk, rocketTera, resp, serve, handled, prev>>
    /\ UNCHANGED regVars
    /\ UNCHANGED engVars
    /\ UNCHANGED ctxVars

\* No request answered before.
NoPrev == [handler |-> "none", key |-> <<>>, hit |-> FALSE, body |-> ""]

\* The response is written out and the request is over.
Close ==
    /\ phase = "serving"
    /\ sent # NoSent
    /\ resp' = NoResp
    /\ sent' = NoSent
    /\ UNCHANGED <<phase, rootOk, disk, rocketTera, serve, handled, prev>>
    /\ UNCHANGED regVars
    /\ UNCHANGED engVars
    /\ UNCHANGED ctxVars

\* Close, with the request just answered kept as history.
CloseNoted ==
    /\ phase = "serving"
    /\ sent # NoSent
    /\ prev' = [handler |-> resp.handler, key |-> resp.key, hit |-> resp.hit,
                body |-> resp.body]
    /\ resp' = NoResp
    /\ sent' = NoSent
    /\ UNCHANGED <<phase, rootOk, disk, rocketTera, serve, handled>>
    /\ UNCHANGED regVars
    /\ UNCHANGED engVars
    /\ UNCHANGED ctxVars

----------------------------------------------------------------------------
\* RocketTeraServer::serve.

\* How far serve has come: the outcome of each of its steps ("none" while not
\* reached), whether routes and catchers were mounted, and what the call
\* returned ("pending" while it has not, "panic" when it unwound instead).
NotServed ==
    [ load |-> "none", compile |-> "none", ignite |-> "none", launch |-> "none",
      mounted |-> FALSE, ret |-> "pending" ]

\* Mutant of ServeLoadAll: the error of load_all is dropped and serve goes on.
ServeLoadAllIgnoreErr ==
    /\ phase = "build"
    /\ writer = NoThread
    /\ LET b == BuildTera(rootOk, disk) IN
         IF b.ok
         THEN /\ tera' = b.tera
              /\ serve' = [serve EXCEPT !.load = "Ok"]
         ELSE /\ serve' = [serve EXCEPT !.load = "Err"]
              /\ UNCHANGED tera
    /\ phase' = "loaded"
    /\ UNCHANGED <<pc, local, result, writer>>
    /\ UNCHANGED <<rootOk, disk, rocketTera, resp, sent, handled, prev>>
    /\ UNCHANGED regVars
    /\ UNCHANGED ctxVars

\* engine.load_all()?; run by serve before the engine is shared with any handler.
ServeLoadAll ==
    /\ phase = "build"
    /\ writer = NoThread
    /\ LET b == BuildTera(rootOk, disk) IN
         IF b.ok
         THEN /\ tera' = b.tera
              /\ phase' = "loaded"
              /\ serve' = [serve EXCEPT !.load = "Ok"]
         ELSE /\ phase' = "load_failed"
              /\ serve' = [serve EXCEPT !.load = "Err", !.ret = "Err"]
              /\ UNCHANGED tera
    /\ UNCHANGED <<pc, local, result, writer>>
    /\ UNCHANGED <<rootOk, disk, rocketTera, resp, sent, handled, prev>>
    /\ UNCHANGED regVars
    /\ UNCHANGED ctxVars

\* rocket::build() .. ignite(): routes and catchers are mounted, then ignite
\* runs the Template::custom callback, which compiles the directory again into
\* Rocket's own Tera and whose two expect calls panic on failure; `ignited`
\* tells whether the rest of ignite succeeds, and expect("msg") panics when it
\* does not.  templates_dir is taken to name the directory the engine's root
\* names.
ServeIgnite(ignited) ==
    /\ phase = "loaded"
    /\ LET b == BuildTera(rootOk, disk) IN
         IF ~b.ok
         THEN /\ phase' = "panicked"
              /\ serve' = [serve EXCEPT !.mounted = TRUE, !.compile = "panic",
                                        !.ret = "panic"]
              /\ UNCHANGED rocketTera
         ELSE IF ~ignited
         THEN /\ phase' = "panicked"
              /\ serve' = [serve EXCEPT !.mounted = TRUE, !.compile = "Ok",
                                        !.ignite = "Err", !.ret = "panic"]
              /\ UNCHANGED rocketTera
         ELSE /\ phase' = "ignited"
              /\ rocketTera' = b.tera
              /\ serve' = [serve EXCEPT !.mounted = TRUE, !.compile = "Ok",
                                        !.ignite = "Ok"]
    /\ UNCHANGED <<rootOk, disk, resp, sent, handled, prev>>
    /\ UNCHANGED regVars
    /\ UNCHANGED engVars
    /\ UNCHANGED ctxVars

\* Mutant of ServeLaunch: the server serves although the listener was not bound.
ServeLaunchAnyway(bound) ==
    /\ phase = "ignited"
    /\ phase' = "serving"
    /\ serve' = [serve EXCEPT !.launch = IF bound THEN "Ok" ELSE "Err"]
    /\ UNCHANGED <<rootOk, disk, rocketTera, resp, sent, handled, prev>>
    /\ UNCHANGED regVars
    /\ UNCHANGED engVars
    /\ UNCHANGED ctxVars

\* launch(): binds the listener (expect panics when that fails) and serves.
ServeLaunch(bound) ==
    /\ phase = "ignited"
    /\ phase' = IF bound THEN "serving" ELSE "panicked"
    /\ serve' = IF bound THEN [serve EXCEPT !.launch = "Ok"]
                ELSE [serve EXCEPT !.launch = "Err", !.ret = "panic"]
    /\ UNCHANGED <<rootOk, disk, rocketTera, resp, sent, handled, prev>>
    /\ UNCHANGED regVars
    /\ UNCHANGED engVars
    /\ UNCHANGED ctxVars

\* Mutant of ServeReturn: serve returns Ok(()) and the server keeps serving.
ServeReturnEarly ==
    /\ phase = "serving"
    /\ resp = NoResp
    /\ serve' = [serve EXCEPT !.ret = "Ok"]
    /\ UNCHANGED <<phase, rootOk, disk, rocketTera, resp, sent, handled, prev>>
    /\ UNCHANGED regVars
    /\ UNCHANGED engVars
    /\ UNCHANGED ctxVars

\* The server is shut down from outside; launch returns and serve returns Ok(()).
ServeReturn ==
    /\ phase = "serving"
    /\ resp = NoResp
    /\ phase' = "stopped"
    /\ serve' = [serve EXCEPT !.ret = "Ok"]
    /\ UNCHANGED <<rootOk, disk, rocketTera, resp, sent, handled, prev>>
    /\ UNCHANGED regVars
    /\ UNCHANGED engVars
    /\ UNCHANGED ctxVars

----------------------------------------------------------------------------
\* A caller that holds a capsule, edits its data and asks the engine for the context.

DataValues == {EmptyObject, DataX1, BodyObject("hello")}

\* `prev` keeps what the call before the last one returned.
NoContext ==
    [called |-> FALSE, of |-> EmptyObject, value |-> EmptyObject, prev |-> EmptyObject]

\* let mut capsule = Capsule::new(..);
CapsuleNew(args) ==
    /\ cap' = Some(Construct(args))
    /\ UNCHANGED lastCtx
    /\ UNCHANGED <<phase, rootOk, disk, rocketTera, resp>>
    /\ UNCHANGED outVars
    /\ UNCHANGED regVars
    /\ UNCHANGED engVars

\* Mutant of SetData: the registry's capsule is the caller's value itself, so
\* the assignment shows in the registry.
SetDataAliased(data) ==
    /\ cap.some
    /\ cap' = Some(WithData(cap.value, data))
    /\ registry' = IF cap.value.uri \in DOMAIN registry
                      /\ registry[cap.value.uri].name = cap.value.name
                   THEN [registry EXCEPT ![cap.value.uri].data = data]
                   ELSE registry
    /\ UNCHANGED <<adds, lastCall>>
    /\ UNCHANGED lastCtx
    /\ UNCHANGED <<phase, rootOk, disk, rocketTera, resp>>
    /\ UNCHANGED outVars
    /\ UNCHANGED engVars

\* capsule.data = data;
SetData(data) ==
    /\ cap.some
    /\ cap' = Some(WithData(cap.value, data))
    /\ UNCHANGED lastCtx
    /\ UNCHANGED <<phase, rootOk, disk, rocketTera, resp>>
    /\ UNCHANGED outVars
    /\ UNCHANGED regVars
    /\ UNCHANGED engVars

\* Mutant of CallContextFor: the context built by the first call is kept and
\* returned by the later ones.
CallContextForCached ==
    /\ cap.some
    /\ lastCtx' = [called |-> TRUE, of |-> cap.value,
                   value |-> IF lastCtx.called THEN lastCtx.value
                             ELSE ContextFor(cap.value),
                   prev |-> lastCtx.value]
    /\ UNCHANGED cap
    /\ UNCHANGED <<phase, rootOk, disk, rocketTera, resp>>
    /\ UNCHANGED outVars
    /\ UNCHANGED regVars
    /\ UNCHANGED engVars

\* let ctx = engine.context_for(&capsule);
CallContextFor ==
    /\ cap.some
    /\ lastCtx' = [called |-> TRUE, of |-> cap.value, value |-> ContextFor(cap.value),
                   prev |-> lastCtx.value]
    /\ UNCHANGED cap
    /\ UNCHANGED <<phase, rootOk, disk, rocketTera, resp>>
    /\ UNCHANGED outVars
    /\ UNCHANGED regVars
    /\ UNCHANGED engVars

----------------------------------------------------------------------------
\* Specifications.

\* CapsuleRegistry::default(), TeraEngine::new(root), threads not yet calling.
Init ==
    /\ registry = <<>>
    /\ adds = <<>>
    /\ lastCall = [op |-> "none", arg |-> <<>>, result |-> None]
    /\ phase = "build"
    /\ rootOk \in BOOLEAN
    /\ disk \in [TemplateFiles -> FileStates]
    /\ tera = {}
    /\ rocketTera = {}
    /\ pc = [t \in Threads |-> "idle"]
    /\ local = [t \in Threads |-> {}]
    /\ result = [t \in Threads |-> "none"]
    /\ writer = NoThread
    /\ resp = NoResp
    /\ sent = NoSent
    /\ serve = NotServed
    /\ handled = FALSE
    /\ prev = NoPrev
    /\ cap = None
    /\ lastCtx = NoContext

\* A program that builds a registry and hands it to serve.
Next ==
    \/ \E capsule \in CallerCapsules : Add(capsule)
    \/ \E f \in TemplateFiles, s \in FileStates : DiskChange(f, s)
    \/ ServeLoadAll
    \/ \E ignited \in BOOLEAN : ServeIgnite(ignited)
    \/ \E bound \in BOOLEAN : ServeLaunch(bound)
    \/ ServeReturn
    \/ \E segs \in RequestPaths : CatchAll(segs)
    \/ \E segs \in RequestPaths, data \in Bodies : HandlePost(segs, data)
    \/ \E segs \in RequestPaths : NotFound(segs)
    \/ \E status \in Statuses : DefaultCatcher(status)
    \/ Respond
    \/ Close

Spec == Init /\ [][Next]_vars

\* A caller that builds a registry and queries it.
NextRegistry ==
    \/ \E capsule \in CallerCapsules : Add(capsule)
    \/ \E uri \in ProbeUris : Get(uri)
    \/ All

SpecRegistry == Init /\ [][NextRegistry]_vars

\* A caller that builds capsules and derives their contexts.
NextContext ==
    \/ \E args \in ConstructArgs : CapsuleNew(args)
    \/ \E data \in DataValues : SetData(data)
    \/ CallContextFor

SpecContext == Init /\ [][NextContext]_vars

\* Threads that share one TeraEngine and reload it while the directory changes.
NextEngine ==
    \/ \E f \in TemplateFiles, s \in FileStates : DiskChange(f, s)
    \/ \E t \in Threads : LoadCall(t)
    \/ \E t \in Threads : LoadBuild(t)
    \/ \E t \in Threads : LoadLock(t)
    \/ \E t \in Threads : LoadStore(t)
    \/ \E t \in Threads : LoadUnlock(t)

SpecEngine == Init /\ [][NextEngine]_vars

\* The template directory is edited while the server runs.
DiskChangeLive(f, s) ==
    /\ phase = "serving"
    /\ resp = NoResp
    /\ disk[f] # s
    /\ disk' = [disk EXCEPT ![f] = s]
    /\ UNCHANGED <<phase, rootOk, rocketTera, resp>>
    /\ UNCHANGED outVars
    /\ UNCHANGED regVars
    /\ UNCHANGED engVars
    /\ UNCHANGED ctxVars

\* The registry the caller of serve has built: two add calls.
ServedCapsules ==
    << WithData(Construct(<<"home", "landing page", <<"/">>, "index", "Method::GET">>),
                EmptyObject),
       WithData(Construct(<<"blog", "a post", <<"/", "a">>, "post", "Method::POST">>),
                EmptyObject) >>

InitReload ==
    /\ adds = ServedCapsules
    /\ registry = RegistryAdd(RegistryAdd(<<>>, ServedCapsules[1]), ServedCapsules[2])
    /\ lastCall = [op |-> "add", arg |-> ServedCapsules[2], result |-> None]
    /\ phase = "build"
    /\ rootOk \in BOOLEAN
    /\ disk \in [TemplateFiles -> FileStates]
    /\ tera = {}
    /\ rocketTera = {}
    /\ pc = [t \in Threads |-> "idle"]
    /\ local = [t \in Threads |-> {}]
    /\ result = [t \in Threads |-> "none"]
    /\ writer = NoThread
    /\ resp = NoResp
    /\ sent = NoSent
    /\ serve = NotServed
    /\ handled = FALSE
    /\ prev = NoPrev
    /\ cap = None
    /\ lastCtx = NoContext

\* The paths requested of the running server.
ReloadPaths == {<<>>, << <<"a">> >>}

\* The thread that keeps a clone of the engine's Arc and reloads it.
Reloader == "t1"

\* A server that answers GET requests while the holder of a clone of the
\* engine calls load_all again and the template directory changes.
NextReload ==
    \/ \E f \in TemplateFiles, s \in FileStates : DiskChange(f, s)
    \/ \E f \in TemplateFiles, s \in FileStates : DiskChangeLive(f, s)
    \/ ServeLoadAll
    \/ \E ignited \in BOOLEAN : ServeIgnite(ignited)
    \/ \E bound \in BOOLEAN : ServeLaunch(bound)
    \/ \E segs \in ReloadPaths : CatchAll(segs)
    \/ Respond
    \/ Close
    \/ (phase = "serving" /\ LoadCall(Reloader))
    \/ LoadBuild(Reloader)
    \/ LoadLock(Reloader)
    \/ LoadStore(Reloader)
    \/ LoadUnlock(Reloader)

SpecReload == InitReload /\ [][NextReload]_vars

\* A registry whose capsule at "/a" was configured with {"x":1}.
LeakCapsules ==
    << WithData(Construct(<<"home", "landing page", <<"/">>, "index", "Method::GET">>),
                EmptyObject),
       WithData(Construct(<<"echo", "echo back", <<"/", "a">>, "index", "Method::PUT">>),
                DataX1) >>

InitLeak ==
    /\ adds = LeakCapsules
    /\ registry = RegistryAdd(RegistryAdd(<<>>, LeakCapsules[1]), LeakCapsules[2])
    /\ lastCall = [op |-> "add", arg |-> LeakCapsules[2], result |-> None]
    /\ phase = "build"
    /\ rootOk \in BOOLEAN
    /\ disk \in [TemplateFiles -> FileStates]
    /\ tera = {}
    /\ rocketTera = {}
    /\ pc = [t \in Threads |-> "idle"]
    /\ local = [t \in Threads |-> {}]
    /\ result = [t \in Threads |-> "none"]
    /\ writer = NoThread
    /\ resp = NoResp
    /\ sent = NoSent
    /\ serve = NotServed
    /\ handled = FALSE
    /\ prev = NoPrev
    /\ cap = None
    /\ lastCtx = NoContext

\* A server that answers GET and POST requests one after the other, each run
\* keeping the request answered before.
NextLeak ==
    \/ ServeLoadAll
    \/ \E ignited \in BOOLEAN : ServeIgnite(ignited)
    \/ \E bound \in BOOLEAN : ServeLaunch(bound)
    \/ \E segs \in ReloadPaths : CatchAll(segs)
    \/ \E segs \in ReloadPaths, data \in Bodies : HandlePost(segs, data)
    \/ Respond
    \/ CloseNoted

SpecLeak == InitLeak /\ [][NextLeak]_vars

\* registry.add(capsule.clone()): the caller registers a copy of the capsule it
\* holds and keeps the original.
AddHeld ==
    /\ phase = "build"
    /\ cap.some
    /\ Len(adds) < MaxAdds
    /\ registry' = RegistryAdd(registry, cap.value)
    /\ adds' = Append(adds, cap.value)
    /\ lastCall' = [op |-> "add", arg |-> cap.value, result |-> None]
    /\ UNCHANGED <<phase, rootOk, disk, rocketTera, resp>>
    /\ UNCHANGED outVars
    /\ UNCHANGED engVars
    /\ UNCHANGED ctxVars

\* A caller that constructs capsules, registers copies of them and goes on
\* editing the originals.
NextOwned ==
    \/ \E args \in ConstructArgs : CapsuleNew(args)
    \/ \E data \in DataValues : SetData(data)
    \/ AddHeld

\* An empty registry and no capsule held yet; the template directory, which
\* these calls do not read, holds its two files.
InitOwned ==
    /\ registry = <<>>
    /\ adds = <<>>
    /\ lastCall = [op |-> "none", arg |-> <<>>, result |-> None]
    /\ phase = "build"
    /\ rootOk = TRUE
    /\ disk = [f \in TemplateFiles |-> "ok"]
    /\ tera = {}
    /\ rocketTera = {}
    /\ pc = [t \in Threads |-> "idle"]
    /\ local = [t \in Threads |-> {}]
    /\ result = [t \in Threads |-> "none"]
    /\ writer = NoThread
    /\ resp = NoResp
    /\ sent = NoSent
    /\ serve = NotServed
    /\ handled = FALSE
    /\ prev = NoPrev
    /\ cap = None
    /\ lastCtx = NoContext

SpecOwned == InitOwned /\ [][NextOwned]_vars

----------------------------------------------------------------------------
\* Properties of the registry (SpecRegistry).

\* The uris that were passed to add so far.
AddedUris == {adds[i].uri : i \in 1..Len(adds)}

\* The capsule of the last add call whose uri is u.
LastAdded(u) ==
    LET idx == {i \in 1..Len(adds) : adds[i].uri = u}
    IN  adds[CHOOSE i \in idx : \A j \in idx : j <= i]

\* C1: after any sequence of add calls, get(u) returns the capsule passed to the
\* last add whose uri is u, with every field as it was given; a get call made by
\* the caller returns that capsule.
C1_LastAddWins ==
    /\ \A u \in AddedUris : RegistryGet(registry, u) = Some(LastAdded(u))
    /\ (lastCall.op = "get" /\ lastCall.arg \in AddedUris)
          => lastCall.result = Some(LastAdded(lastCall.arg))

\* Two adds with the same uri and different capsules, then a get of that uri that
\* returned the second capsule.
C1_Witness ==
    /\ Len(adds) = 2
    /\ adds[1].uri = adds[2].uri
    /\ adds[1] # adds[2]
    /\ lastCall.op = "get"
    /\ lastCall.arg = adds[2].uri
    /\ lastCall.result = Some(adds[2])

\* What an all() call yielded is one pair per added uri, each pair once, each with
\* the capsule stored for that uri.
AllYieldsEachUriOnce ==
    lastCall.op = "all" =>
        LET r == lastCall.result IN
        /\ \A i, j \in 1..Len(r) : i # j => r[i][1] # r[j][1]
        /\ {r[i][1] : i \in 1..Len(r)} = AddedUris
        /\ \A i \in 1..Len(r) : r[i][2] = LastAdded(r[i][1])
        /\ Len(r) <= Len(adds)

\* An all() call leaves the registry as it was, and an all() call that follows an
\* all() call with no add in between yields the same set of pairs.
AllStep ==
    /\ (lastCall'.op = "all" /\ adds' = adds) => registry' = registry
    /\ (lastCall.op = "all" /\ lastCall'.op = "all")
          => Range(lastCall'.result) = Range(lastCall.result)

\* C2: after any sequence of add calls all() yields exactly one (uri, capsule)
\* pair for each distinct uri added and no other pair, in a finite sequence;
\* calling all() does not change the registry, and two calls with no add in
\* between yield the same set of pairs.
C2_AllPairs == [] AllYieldsEachUriOnce /\ [][AllStep]_vars

\* An all() call that yielded two pairs after adds to two distinct uris.
C2_Witness ==
    /\ lastCall.op = "all"
    /\ Len(lastCall.result) = 2
    /\ Len(adds) = 2
    /\ DOMAIN registry = AddedUris

\* C3: get(u) is an exact-string lookup: it returns a capsule if and only if a
\* capsule whose uri equals u character for character was added, and absence
\* otherwise (also on the empty registry); nothing is normalised.
C3_ExactLookup ==
    /\ \A u \in ProbeUris : RegistryGet(registry, u).some <=> (u \in AddedUris)
    /\ lastCall.op = "get" => (lastCall.result.some <=> (lastCall.arg \in AddedUris))

\* "/a" is registered, "a" and "/a/" are not, and get("/a/") returned absence.
C3_Witness ==
    /\ <<"/", "a">> \in AddedUris
    /\ <<"a">> \notin AddedUris
    /\ <<"/", "a", "/">> \notin AddedUris
    /\ lastCall.op = "get"
    /\ lastCall.arg = <<"/", "a", "/">>
    /\ lastCall.result = None

----------------------------------------------------------------------------
\* Properties of dispatch (Spec).

\* join(p, "/"): the segments of p with one "/" between neighbours.
RECURSIVE JoinWithSlash(_)
JoinWithSlash(p) ==
    IF p = <<>> THEN <<>>
    ELSE IF Len(p) = 1 THEN p[1]
    ELSE p[1] \o <<"/">> \o JoinWithSlash(Tail(p))

\* "/" + join(p, "/")
ExpectedKey(p) == <<"/">> \o JoinWithSlash(p)

\* The last request was answered by catch_all or handle_post.
Dispatched == resp.handler \in {"catch_all", "handle_post"}

\* C4: for every captured path p, catch_all and handle_post look the registry up
\* with exactly the key "/" + join(p, "/"): the request hits a capsule (and renders
\* a capsule context) if and only if that exact string is a key of the registry.
C4_LookupKey ==
    Dispatched =>
        /\ resp.key = ExpectedKey(resp.segs)
        /\ resp.hit <=> (ExpectedKey(resp.segs) \in DOMAIN registry)
        /\ resp.hit <=> ("uri" \in DOMAIN resp.template.context)
        /\ ~resp.hit <=> ("path" \in DOMAIN resp.template.context)

\* A GET for the segments a, b that hit the capsule registered at "/a/b".
C4_Witness ==
    /\ resp.handler = "catch_all"
    /\ resp.segs = << <<"a">>, <<"b">> >>
    /\ resp.hit
    /\ resp.template.context.uri = <<"/", "a", "/", "b">>

\* C5: a POST to a registered path with body b renders with a context whose data
\* is exactly {"body": b}; the data the registered capsule held is discarded.
C5_PostBodyOverride ==
    (resp.handler = "handle_post" /\ ExpectedKey(resp.segs) \in AddedUris) =>
        /\ DOMAIN resp.template.context.data = {"body"}
        /\ resp.template.context.data.body = resp.body

\* A POST with body "hello" to a path whose registered capsule holds {"x":1}.
C5_Witness ==
    /\ resp.handler = "handle_post"
    /\ resp.hit
    /\ resp.body = "hello"
    /\ registry[resp.key].data = DataX1
    /\ resp.template.context.data = [body |-> "hello"]

\* C6: when the normalised path is not a key of the registry, catch_all and
\* handle_post render the template "404" with a context that holds the attempted
\* normalised path under "path" and nothing else.
C6_MissFallback ==
    (Dispatched /\ ExpectedKey(resp.segs) \notin AddedUris) =>
        /\ resp.template.name = "404"
        /\ DOMAIN resp.template.context = {"path"}
        /\ resp.template.context.path = ExpectedKey(resp.segs)

\* A POST with a body to an unregistered path of a non-empty registry.
C6_Witness ==
    /\ resp.handler = "handle_post"
    /\ resp.body = "hello"
    /\ resp.segs = << <<"b">> >>
    /\ registry # <<>>
    /\ ~resp.hit
    /\ resp.template = TemplateRender("404", [path |-> <<"/", "b">>])

\* C7: a GET to a registered path renders the template named by the registered
\* capsule's template field with the context context_for(registered capsule), so
\* the context's data is the capsule's configured payload.
C7_GetHit ==
    (resp.handler = "catch_all" /\ ExpectedKey(resp.segs) \in AddedUris) =>
        LET capsule == LastAdded(ExpectedKey(resp.segs)) IN
        /\ resp.template.name = capsule.template
        /\ resp.template.context = ContextFor(capsule)
        /\ resp.template.context.data = capsule.data

\* A GET that hit a capsule whose configured payload is {"x":1}.
C7_Witness ==
    /\ resp.handler = "catch_all"
    /\ resp.hit
    /\ registry[resp.key].data = DataX1
    /\ resp.template.name = "index"
    /\ resp.template.context.data = DataX1

----------------------------------------------------------------------------
\* Properties of context_for (SpecContext).

\* The four fields a context copies from the capsule.
CopiesFields(context, capsule) ==
    /\ context.name = capsule.name
    /\ context.description = capsule.description
    /\ context.uri = capsule.uri
    /\ context.data = capsule.data

\* What a context_for call returned agrees with the capsule it was given.
ContextIsCurrent == lastCtx.called => CopiesFields(lastCtx.value, lastCtx.of)

\* A context_for call is given the caller's capsule as it is now and returns its
\* fields as they are now.
ContextForStep ==
    lastCtx' # lastCtx =>
        /\ cap.some
        /\ lastCtx'.of = cap.value
        /\ CopiesFields(lastCtx'.value, cap.value)

\* C8: context_for(capsule) is computed from the capsule's current field values on
\* every call, with no caching: name, description, uri and data of the context
\* equal the capsule's fields at the time of the call, so a call made after
\* capsule.data was changed returns the new data.
C8_NoStaleContext == [] ContextIsCurrent /\ [][ContextForStep]_vars

\* Two calls for the same capsule, the first with data {} and the second, after
\* capsule.data was set to {"x":1}, with data {"x":1}.
C8_Witness ==
    /\ lastCtx.called
    /\ "data" \in DOMAIN lastCtx.prev
    /\ lastCtx.prev.name = lastCtx.value.name
    /\ lastCtx.prev.data = EmptyObject
    /\ lastCtx.value.data = DataX1
    /\ cap.value.data = DataX1

\* The string form of each Method variant.
MethodString ==
    [m \in Methods |->
        IF m = "Method::GET" THEN "GET"
        ELSE IF m = "Method::POST" THEN "POST"
        ELSE IF m = "Method::PUT" THEN "PUT"
        ELSE "DELETE"]

\* C9: the default render context has exactly the five keys name, description,
\* uri, method and data; method is the string form of the capsule's Method
\* variant, and the capsule's template name is not part of the context.
C9_ContextShape ==
    lastCtx.called =>
        /\ DOMAIN lastCtx.value = {"name", "description", "uri", "method", "data"}
        /\ lastCtx.value.method = MethodString[lastCtx.of.method]
        /\ lastCtx.value.method \in {"GET", "POST", "PUT", "DELETE"}
        /\ "template" \notin DOMAIN lastCtx.value

\* A context built for a capsule declared DELETE with template "index".
C9_Witness ==
    /\ lastCtx.called
    /\ lastCtx.of.method = "Method::DELETE"
    /\ lastCtx.of.template = "index"
    /\ lastCtx.value.method = "DELETE"

----------------------------------------------------------------------------
\* Properties of load_all (SpecEngine).

\* A load_all call that starts building now fails: the glob pattern is invalid or
\* a file it finds does not compile.
LoadFails == ~rootOk \/ \E f \in TemplateFiles : disk[f] = "bad"

\* The steps of a failing load_all call: it returns Err from the build, and neither
\* that step nor the step before it touched the compiled set.
FailedLoadStep ==
    \A t \in Threads :
        /\ (pc[t] = "called" /\ pc'[t] # "called" /\ LoadFails)
              => (result'[t] = "Err" /\ pc'[t] = "idle" /\ tera' = tera)
        /\ (result'[t] = "Err" /\ result[t] # "Err")
              => (pc[t] = "called" /\ tera' = tera)
        /\ (pc[t] = "idle" /\ pc'[t] = "called") => tera' = tera

\* C10: if load_all fails, the engine's compiled set is left exactly as it was
\* (nothing of the failed load is applied) and the call returns an error.
C10_FailedLoadKeepsSet == [][FailedLoadStep]_vars

\* A load_all call returned Err while a file that compiles and a file that does
\* not are on disk and the set of an earlier load is still in place.
C10_Witness ==
    \E t \in Threads :
        /\ result[t] = "Err"
        /\ pc[t] = "idle"
        /\ \A u \in Threads : pc[u] = "idle"
        /\ tera = {"404"}
        /\ disk["404"] = "bad"
        /\ disk["index"] = "ok"

----------------------------------------------------------------------------
\* C12.

\* The three conditions under which load_all is documented to fail, as they
\* stand when the call reads the directory.
MustFail ==
    \/ ~rootOk
    \/ \E f \in TemplateFiles : disk[f] = "walkerr"
    \/ \E f \in TemplateFiles : disk[f] = "bad"

\* C12: load_all returns an error when the glob pattern is invalid, when the
\* filesystem is inaccessible while the template files are enumerated, or when
\* a template fails to compile; in none of the three does the call go on to Ok.
C12_ErrorCases ==
    [][\A t \in Threads :
          (pc[t] = "called" /\ pc'[t] # "called" /\ MustFail)
             => (result'[t] = "Err" /\ pc'[t] = "idle")]_vars

----------------------------------------------------------------------------
\* C19.

\* The threads that hold the write guard of TeraEngine.tera.
Holders == {t \in Threads : pc[t] \in {"locked", "stored"}}

\* At most one holder, and the lock knows who it is.
ExclusiveWriter ==
    /\ Cardinality(Holders) <= 1
    /\ writer = NoThread <=> Holders = {}
    /\ writer # NoThread => Holders = {writer}

\* The shared set changes only by one assignment of the lock holder, which puts
\* in the whole set that holder built; that set was complete when it was built
\* (every file the walk yielded, all compiled) and is not touched in between.
WholeSwap ==
    /\ tera' # tera =>
          \E t \in Threads :
              /\ writer = t
              /\ pc[t] = "locked"
              /\ pc'[t] = "stored"
              /\ tera' = local[t]
    /\ \A t \in Threads :
          /\ (pc[t] = "called" /\ pc'[t] = "built")
                => (local'[t] = Globbed(disk) /\ \A f \in local'[t] : disk[f] = "ok")
          /\ (pc[t] \in {"built", "locked"}) => local'[t] = local[t]

----------------------------------------------------------------------------
\* C16.

\* What a GET and a POST for the captured segments would return, asked of the
\* server as it waits for a request.
GetOf(segs) == CatchAllBody(registry, PathBufOf(segs))
PostOf(segs, data) == HandlePostBody(registry, PathBufOf(segs), data)

\* The handler's result renders `capsule`: its template, its name and uri, and
\* its declared method as a string of the context.
RendersCapsule(out, capsule) ==
    /\ out.hit
    /\ out.template.name = capsule.template
    /\ out.template.context.name = capsule.name
    /\ out.template.context.uri = capsule.uri
    /\ out.template.context.method = MethodString[capsule.method]

\* C16: dispatch ignores Capsule.method: whatever method a capsule declares, a
\* GET and a POST to its uri both hit it and render it; no request is turned
\* away because its verb differs, and the declared method only shows as a
\* string of the context.
C16_MethodIgnored ==
    /\ \A segs \in RequestPaths :
          (phase = "serving" /\ resp = NoResp /\ Capturable(segs)
              /\ ExpectedKey(segs) \in AddedUris) =>
              LET capsule == LastAdded(ExpectedKey(segs)) IN
              /\ RendersCapsule(GetOf(segs), capsule)
              /\ \A data \in Bodies : RendersCapsule(PostOf(segs, data), capsule)
    /\ (Dispatched /\ ExpectedKey(resp.segs) \in AddedUris) =>
          RendersCapsule(resp, LastAdded(ExpectedKey(resp.segs)))

\* A GET that hit a capsule declared POST, in a registry that also holds a
\* capsule declared GET which a POST would hit.
C16_Witness ==
    /\ resp.handler = "catch_all"
    /\ resp.hit
    /\ registry[resp.key].method = "Method::POST"
    /\ resp.template.context.method = "POST"
    /\ <<"/">> \in DOMAIN registry
    /\ registry[<<"/">>].method = "Method::GET"
    /\ PostOf(<<>>, "hello").hit

----------------------------------------------------------------------------
\* C13, C14, C15: the failures of serve's startup steps.

\* After engine.load_all() failed inside serve: the call has returned that
\* error, nothing was mounted, compiled, ignited or launched, and no handler ran.
LoadFailureAborts ==
    serve.load = "Err" =>
        /\ serve.ret = "Err"
        /\ phase = "load_failed"
        /\ ~serve.mounted
        /\ serve.compile = "none" /\ serve.ignite = "none" /\ serve.launch = "none"
        /\ rocketTera = {}
        /\ ~handled /\ resp = NoResp /\ sent = NoSent

\* serve's first step fails exactly when load_all does, and a serve call that
\* has returned the error takes no further step.
LoadFailureStep ==
    /\ (phase = "build" /\ phase' # "build")
          => (serve'.load = "Err" <=> LoadFails)
    /\ serve.load = "Err" => (serve' = serve /\ phase' = phase /\ handled' = handled)

\* C13: if engine.load_all() fails inside serve, serve returns that error, no
\* route or catcher is bound, the server is never launched and no request is
\* ever handled.
C13_LoadFailureAborts == [](LoadFailureAborts) /\ [][LoadFailureStep]_vars

\* serve was called on a registry with capsules while a template on disk does
\* not compile, and has returned.
C13_Witness ==
    /\ serve.load = "Err"
    /\ serve.ret = "Err"
    /\ Len(adds) > 0
    /\ rootOk
    /\ disk["index"] = "bad"
    /\ disk["404"] = "ok"
\* C14: if the Rocket server fails to ignite or to launch (the port is in use,
\* say), serve returns an error value (Err) to its caller.
C14_IgniteLaunchErr ==
    (serve.ignite = "Err" \/ serve.launch = "Err") => serve.ret = "Err"
\* A startup step of serve has failed.
StartupFailed ==
    \/ serve.load = "Err"
    \/ serve.compile = "panic"
    \/ serve.ignite = "Err"
    \/ serve.launch = "Err"

\* After a failed startup step the call is over, the server does not serve and
\* no route or catcher has run.
NoServiceAfterFailure ==
    StartupFailed =>
        /\ phase \in {"load_failed", "panicked"}
        /\ serve.ret \in {"Err", "panic"}
        /\ ~handled /\ resp = NoResp /\ sent = NoSent

\* Each step fails when its cause is there; a failure is final; and a handler
\* only ever runs after all four steps succeeded.
FailFastStep ==
    /\ (phase = "build" /\ phase' # "build" /\ LoadFails) => serve'.load = "Err"
    /\ (phase = "loaded" /\ phase' # "loaded" /\ LoadFails) => serve'.compile = "panic"
    /\ StartupFailed => (StartupFailed' /\ phase' = phase /\ ~handled')
    /\ handled' =>
          /\ serve.load = "Ok" /\ serve.compile = "Ok"
          /\ serve.ignite = "Ok" /\ serve.launch = "Ok"

\* C15: startup is fail-fast: if engine.load_all, the HTTP layer's template
\* compilation, ignite or launch fails, no request is ever handled by
\* catch_all, handle_post, not_found or default_catcher; in no state does the
\* server serve requests after a failed startup step.
C15_FailFast == [](NoServiceAfterFailure) /\ [][FailFastStep]_vars

\* The last startup step failed: templates were loaded and compiled, Rocket
\* ignited, and the listener could not be bound.
C15_Witness ==
    /\ serve.load = "Ok"
    /\ serve.compile = "Ok"
    /\ serve.ignite = "Ok"
    /\ serve.launch = "Err"
    /\ Len(adds) > 0
    /\ rocketTera = {"404", "index"}

----------------------------------------------------------------------------
\* C17, C18: error pages and render failures.

\* Template::render("404", context! {})
ErrorPage == TemplateRender("404", EmptyObject)

\* The last request was answered by not_found or by default_catcher, that is, by
\* neither of the two capsule handlers.
Unrouted == resp.handler \in {"not_found", "default_catcher"}

\* C17: every request that the GET and POST capsule handlers do not handle
\* (another verb, or a framework error status of any code) ends in a render of
\* the template "404" with an empty context; default_catcher renders that same
\* template and context for every status value.
C17_ErrorPage ==
    /\ \A status \in Statuses : DefaultCatcherBody(status) = ErrorPage
    /\ NotFoundBody = ErrorPage
    /\ Unrouted =>
          /\ resp.template = ErrorPage
          /\ (sent # NoSent /\ "404" \in rocketTera) =>
                /\ sent.page = "404"
                /\ sent.context = EmptyObject

\* The catcher was invoked for status 500 and its "404" page went out with that
\* status.
C17_Witness ==
    /\ resp.handler = "default_catcher"
    /\ resp.status = 500
    /\ sent.page = "404"
    /\ sent.status = 500
    /\ sent.context = EmptyObject

\* The response to a route's Template that Rocket could not render.
RenderFailed ==
    /\ resp.handler \in {"catch_all", "handle_post", "not_found"}
    /\ sent # NoSent
    /\ ~Renders(rocketTera, resp.template)

FailureGoesToCatcher ==
    RenderFailed =>
        /\ resp.template.name \notin rocketTera
        /\ sent.status = 500
        /\ IF "404" \in rocketTera
           THEN sent = [status |-> 500, page |-> "404", context |-> EmptyObject,
                        via |-> "catcher"]
           ELSE sent = BuiltinError

\* The step that builds the response to a failed render changes neither the
\* registry nor either template set, so what a GET for "/" or "/a" gets is the
\* same before and after it.
FailureTouchesNothing ==
    (resp # NoResp /\ sent = NoSent /\ sent' # NoSent
        /\ resp.handler # "default_catcher" /\ ~Renders(rocketTera, resp.template))
    => /\ registry' = registry
       /\ tera' = tera
       /\ rocketTera' = rocketTera
       /\ resp' = resp
       /\ \A segs \in ReloadPaths :
             Capturable(segs) =>
                Responder(rocketTera', Handled("catch_all", segs, "",
                                               CatchAllBody(registry', PathBufOf(segs))))
                = Responder(rocketTera, Handled("catch_all", segs, "",
                                                CatchAllBody(registry, PathBufOf(segs))))

----------------------------------------------------------------------------
\* C11, C20: the engine's set and the requests (SpecReload).

\* A response built after a load_all call returned Ok renders only templates of
\* the set that call left.
RendersFromLoaded ==
    (sent = NoSent /\ sent' # NoSent /\ result[Reloader] = "Ok" /\ pc[Reloader] = "idle")
        => (sent'.via \in {"route", "catcher"} => sent'.page \in tera)

\* A successful load_all puts in the set found on disk at that call, whole:
\* nothing of the old set stays, so a second call on an unchanged directory
\* stores the set the first one stored.
ReplacesWhole ==
    \A t \in Threads :
        /\ (pc[t] = "called" /\ pc'[t] = "built") => local'[t] = Globbed(disk)
        /\ (pc[t] = "locked" /\ pc'[t] = "stored") => tera' = local[t]

\* C11: a successful load_all fully replaces the loaded template set with the
\* set found on disk at that call (no merge); after it, a template removed from
\* disk since the last successful load is no longer renderable by requests; and
\* two calls on unchanged disk contents leave the set one call leaves.
C11_ReloadReplaces == [][RendersFromLoaded]_vars /\ [][ReplacesWhole]_vars

\* load_all changes the engine's set only while it holds the write guard.
WritesUnderLock ==
    (tera' # tera /\ phase = "serving") => (writer # NoThread /\ pc[writer] = "locked")

\* A handler's context_for call and the rendering of its Template take shared
\* access to the set, so neither happens while a writer holds it.
ReadsUnderLock ==
    /\ (resp = NoResp /\ resp' # NoResp) => writer = NoThread
    /\ (sent = NoSent /\ sent' # NoSent) => writer = NoThread

\* C20: load_all takes exclusive (write) access to the engine's compiled set
\* for the swap, and context_for and the rendering of a request's template take
\* shared (read) access to that same set.
C20_SharedAccess == [][WritesUnderLock]_vars /\ [][ReadsUnderLock]_vars

----------------------------------------------------------------------------
\* C21: the registry while the server runs.

\* The registry is the mapping the add calls built, capsule data included.
RegistryAsBuilt ==
    /\ DOMAIN registry = AddedUris
    /\ \A u \in AddedUris : registry[u] = LastAdded(u)

\* A POST hit put the body into the context it rendered and left the capsule
\* in the registry with the data it was registered with.
PostMutatesClone ==
    (resp.handler = "handle_post" /\ resp.hit) =>
        /\ resp.template.context.data = BodyObject(resp.body)
        /\ registry[resp.key].data = LastAdded(resp.key).data
        /\ registry[resp.key].data # resp.template.context.data

\* Once serve has been called no step changes the registry.
RegistryFrozen == phase # "build" => (registry' = registry /\ adds' = adds)

----------------------------------------------------------------------------
\* C22: Capsule::new.

\* `capsule` has the five fields of `args` as they were given.
FieldsAsGiven(capsule, args) ==
    /\ capsule.name = args[1]
    /\ capsule.description = args[2]
    /\ capsule.uri = args[3]
    /\ capsule.template = args[4]
    /\ capsule.method = args[5]

\* C22: Capsule::new cannot fail; it returns a capsule whose name, description,
\* uri, template and method are the arguments unchanged (the uri is neither
\* validated nor rewritten) and whose data is the empty object.
C22_NewCapsule ==
    /\ \A args \in ConstructArgs :
          /\ DOMAIN Construct(args)
                = {"name", "description", "uri", "template", "method", "data"}
          /\ FieldsAsGiven(Construct(args), args)
          /\ Construct(args).data = EmptyObject
    /\ cap.some => \E args \in ConstructArgs : FieldsAsGiven(cap.value, args)

\* A capsule constructed with a uri that has a trailing slash, and one could be
\* constructed with a uri that has no leading slash: both keep their uri.
C22_Witness ==
    /\ cap.some
    /\ cap.value.name = "trail"
    /\ cap.value.uri = <<"/", "a", "/">>
    /\ cap.value.data = EmptyObject
    /\ ~lastCtx.called
    /\ \E args \in ConstructArgs : Construct(args).uri = <<"a">>

----------------------------------------------------------------------------
\* C23: the set requests are rendered from.

\* C23: the templates used to render requests are the ones engine.load_all
\* loaded: while the server runs, the set Template::render uses for capsule and
\* 404 pages is the set engine.load_all compiled.
C23_OneSet == serve.launch = "Ok" => rocketTera = tera

----------------------------------------------------------------------------
\* C24: route priority.

----------------------------------------------------------------------------
\* C25: the order of serve's steps.

\* load_all has succeeded before anything is mounted or served, and serve has
\* not returned while the server serves.
LoadedBeforeServing ==
    /\ (serve.mounted \/ handled \/ phase \in {"ignited", "serving", "stopped"})
          => serve.load = "Ok"
    /\ phase = "serving" => serve.ret = "pending"
    /\ serve.ret = "Ok" => (phase = "stopped" /\ resp = NoResp /\ sent = NoSent)

\* The outcome of load_all is set once; the engine's set changes only in that
\* one call; after serve returned no request is taken.
LoadsOnce ==
    /\ serve'.load # serve.load => serve.load = "none"
    /\ tera' # tera => (serve.load = "none" /\ serve'.load = "Ok")
    /\ serve.ret = "Ok" => (resp' = resp /\ handled' = handled /\ phase' = phase)

\* C25: serve calls engine.load_all exactly once per invocation; the call has
\* completed successfully before the registry and engine are published as
\* shared state, before routes are bound and before any request is handled;
\* and serve does not return Ok while the server still accepts connections.
C25_LoadOnceThenServe == [](LoadedBeforeServing) /\ [][LoadsOnce]_vars

\* serve has returned Ok after the server answered requests and was shut down.
C25_Witness ==
    /\ serve.ret = "Ok"
    /\ phase = "stopped"
    /\ handled
    /\ serve.mounted
    /\ tera = {"404", "index"}

----------------------------------------------------------------------------
\* C26: how often a load_all call replaces the set.

\* A call replaces the set in one step, the store under the guard, and takes
\* that step once: from the store it only goes on to return Ok.  A call that
\* returns Err came straight from the build and replaced nothing.  No other
\* step changes the set.
OneReplacement ==
    /\ tera' # tera =>
          \E t \in Threads : pc[t] = "locked" /\ pc'[t] = "stored" /\ tera' = local[t]
    /\ \A t \in Threads :
          /\ (pc[t] = "locked" /\ pc'[t] # "locked")
                => (pc'[t] = "stored" /\ tera' = local[t])
          /\ (pc[t] = "stored" /\ pc'[t] # "stored")
                => (pc'[t] = "idle" /\ result'[t] = "Ok" /\ tera' = tera)
          /\ (result'[t] = "Ok" /\ result[t] # "Ok") => pc[t] = "stored"
          /\ (result'[t] = "Err" /\ result[t] # "Err")
                => (pc[t] = "called" /\ tera' = tera)

\* C26: a TeraEngine is created with an empty compiled set; the set stays empty
\* until the first successful load_all; every successful load_all call performs
\* exactly one replacement of the set, and a failed call performs none.
C26_OneReplacementPerLoad == tera = {} /\ [][OneReplacement]_vars

\* One thread's call returned Ok and left its set, the other's then failed on
\* a file that does not compile and left that set in place.
C26_Witness ==
    \E t, u \in Threads :
        /\ t # u
        /\ result[t] = "Ok" /\ pc[t] = "idle"
        /\ result[u] = "Err" /\ pc[u] = "idle"
        /\ tera = {"index"}
        /\ disk["404"] = "bad"

----------------------------------------------------------------------------
\* C27: a POST hit and a GET hit on one path.

\* Two handler results render the same template with contexts that have the
\* same keys and agree on all of them but data.
SameButData(a, b) ==
    /\ a.template.name = b.template.name
    /\ DOMAIN a.template.context = DOMAIN b.template.context
    /\ \A k \in {"name", "description", "uri", "method"} :
          a.template.context[k] = b.template.context[k]

\* C27: for the same registered path, a POST hit and a GET hit render the same
\* template name, the capsule's own, and contexts that agree on name,
\* description, uri and method and differ at most in the data field.
C27_PostLikeGet ==
    /\ \A segs \in RequestPaths :
          (phase = "serving" /\ resp = NoResp /\ Capturable(segs)
              /\ ExpectedKey(segs) \in AddedUris) =>
              \A data \in Bodies :
                  /\ SameButData(PostOf(segs, data), GetOf(segs))
                  /\ PostOf(segs, data).template.name
                        = LastAdded(ExpectedKey(segs)).template
    /\ (resp.handler = "handle_post" /\ resp.hit) =>
          /\ GetOf(resp.segs).hit
          /\ SameButData(resp, GetOf(resp.segs))
          /\ resp.template.name = registry[resp.key].template

\* A POST hit a capsule declared PUT that holds {"x":1}: its context says PUT
\* and carries the body, where a GET of the same path would carry {"x":1}.
C27_Witness ==
    /\ resp.handler = "handle_post"
    /\ resp.hit
    /\ resp.template.context.method = "PUT"
    /\ resp.template.context.data = [body |-> "hello"]
    /\ GetOf(resp.segs).template.context.data = DataX1
    /\ GetOf(resp.segs).template.name = resp.template.name

----------------------------------------------------------------------------
\* C28: requests do not see each other's data (SpecLeak).

RECURSIVE FoldAdds(_)
\* The registry the add calls built before serve was called.
FoldAdds(capsules) ==
    IF capsules = <<>> THEN <<>>
    ELSE RegistryAdd(FoldAdds(SubSeq(capsules, 1, Len(capsules) - 1)),
                     capsules[Len(capsules)])

\* The part of a handled request that its handler computed.
Outcome(r) == [hit |-> r.hit, key |-> r.key, template |-> r.template]

\* What a request gets is a function of the registry as built and of its own
\* verb, path and body.
OwnInputsOnly ==
    /\ resp.handler = "catch_all" =>
          Outcome(resp) = CatchAllBody(FoldAdds(adds), PathBufOf(resp.segs))
    /\ resp.handler = "handle_post" =>
          Outcome(resp) = HandlePostBody(FoldAdds(adds), PathBufOf(resp.segs), resp.body)

\* A GET that hits the path the request before it posted to renders the data
\* the capsule was registered with, not the body of that POST.
GetAfterPost ==
    (resp.handler = "catch_all" /\ resp.hit
        /\ prev.handler = "handle_post" /\ prev.hit /\ prev.key = resp.key) =>
        /\ resp.template.context.data = LastAdded(resp.key).data
        /\ resp.template.context.data # BodyObject(prev.body)

----------------------------------------------------------------------------
\* C29: keys and ownership of the registry's entries (SpecOwned).

\* Every entry is stored under the uri of its capsule, and holds the capsule as
\* it was when it was added.
KeyIsUri ==
    /\ \A k \in DOMAIN registry : registry[k].uri = k
    /\ \A u \in AddedUris : registry[u] = LastAdded(u)

\* A later change of the caller's own capsule leaves the registry as it is.
OwnedCopy == (cap' # cap /\ adds' = adds) => registry' = registry

\* C29: in every reachable registry state each entry's key equals the uri field
\* of the capsule stored under it, and the stored capsule is an owned copy that
\* later changes to the caller's original value cannot alter.
C29_KeyIsUriOwned == [](KeyIsUri) /\ [][OwnedCopy]_vars

\* The caller registered its capsule while its data was {} and then set the
\* data of its own value to {"x":1}; the registry's capsule still holds {}.
C29_Witness ==
    /\ cap.some
    /\ cap.value.uri = <<"a">>
    /\ cap.value.data = DataX1
    /\ cap.value.uri \in DOMAIN registry
    /\ registry[cap.value.uri].name = cap.value.name
    /\ registry[cap.value.uri].data = EmptyObject

----------------------------------------------------------------------------
\* C30: uris without a leading slash.

\* The uris in the registry that do not start with "/".
Slashless == {u \in DOMAIN registry : u = <<>> \/ u[1] # "/"}

\* C30: every lookup key the dispatcher produces starts with "/"; so a capsule
\* registered under a uri that does not start with "/" is stored by add and
\* returned by get and all, but no GET or POST request ever hits it: such a
\* request renders the 404 template.
C30_LeadingSlash ==
    /\ Dispatched => (resp.key # <<>> /\ resp.key[1] = "/")
    /\ \A u \in Slashless :
          /\ RegistryGet(registry, u) = Some(registry[u])
          /\ <<u, registry[u]>> \in RegistryAll(registry)
          /\ Dispatched => resp.key # u
          /\ (phase = "serving" /\ resp = NoResp) =>
                \A segs \in RequestPaths :
                    Capturable(segs) =>
                        /\ GetOf(segs).key # u
                        /\ \A data \in Bodies : PostOf(segs, data).key # u
    /\ (Dispatched /\ resp.key \notin DOMAIN registry) =>
          (~resp.hit /\ resp.template.name = "404")

\* A capsule is registered under "a" and none under "/a"; a POST for the
\* segment a missed and the 404 page went out.
C30_Witness ==
    /\ <<"a">> \in DOMAIN registry
    /\ <<"/", "a">> \notin DOMAIN registry
    /\ resp.handler = "handle_post"
    /\ resp.segs = << <<"a">> >>
    /\ ~resp.hit
    /\ sent.page = "404"
    /\ sent.via = "route"

====
